---------------------------- MODULE Spec2Model ----------------------------
(***************************************************************************)
(* A model of express-raw's RateLimiter (rateLimiter.js): the request      *)
(* counters, the violation records, the bans, the cleanup timer and the    *)
(* middleware that turns them into one decision per request; and of its    *)
(* WebSocketSupport (websocketSupport.js): the admission of connections,   *)
(* the per-IP limiters, the message handler and the heartbeat timers.      *)
(*                                                                         *)
(* Time is the value Date.now() returns.  A handler runs to completion on  *)
(* the single JavaScript thread, so each handler is one action, and every  *)
(* Date.now() call inside one handler is taken to return the same value.   *)
(* Strings are sequences of one-character strings, so that joining key     *)
(* parts and matching a route pattern are computed, not assumed.           *)
(***************************************************************************)
EXTENDS Integers, Sequences, FiniteSets, TLC

VARIABLES
    now,         \* Date.now()
    config,      \* this.config, fixed at construction
    requests,    \* this.store.requests, in Map insertion order
    violations,  \* this.store.violations
    bans,        \* this.store.bans
    log,         \* history: one entry per request the middleware handled
    responses,   \* the res objects the middleware put a 'finish' listener on
    wsConfig,          \* WebSocketSupport: this.config, fixed at construction
    sockets,           \* the ws objects the server has emitted 'connection' for
    connections,       \* this.connections, keyed by connection id
    activeConnections, \* this.stats.activeConnections
    errors,            \* this.stats.errors
    rateLimiters,      \* this.rateLimiters, keyed by IP
    timers,            \* the pending setTimeout and setInterval callbacks
    wss,               \* this.wss: the server is "running" or "closed"
    delivered          \* history: the messages passed on to config.onMessage

wsVars == <<wsConfig, sockets, connections, activeConnections, errors,
            rateLimiters, timers, wss, delivered>>

vars == <<now, config, requests, violations, bans, log, responses, wsVars>>

----------------------------------------------------------------------------
(* Bounds of the model *)

\* The clock runs from 0 to MaxTime.
MaxTime == 4

\* At most MaxReqs requests are handled in one behaviour.
MaxReqs == 4

\* At most MaxSockets WebSocket clients connect in one behaviour.
MaxSockets == 2

\* At most MaxMsgs WebSocket messages arrive in one behaviour.
MaxMsgs == 2

----------------------------------------------------------------------------
(* Strings *)

RECURSIVE Join(_)
\* parts.join(':')
Join(parts) ==
    IF Len(parts) = 0 THEN <<>>
    ELSE IF Len(parts) = 1 THEN parts[1]
    ELSE parts[1] \o <<":">> \o Join(Tail(parts))

\* new RegExp(pattern).test(path), for a pattern of literal characters: an
\* unanchored search for the pattern inside the path.
RegExpTest(pattern, path) ==
    \E i \in 0..(Len(path) - Len(pattern)) :
        SubSeq(path, i + 1, i + Len(pattern)) = pattern

Min(a, b) == IF a <= b THEN a ELSE b

Max(a, b) == IF a >= b THEN a ELSE b

----------------------------------------------------------------------------
(* Maps *)

MapSet(m, k, v) == [x \in DOMAIN m \cup {k} |-> IF x = k THEN v ELSE m[x]]

MapDelete(m, k) == [x \in DOMAIN m \ {k} |-> m[x]]

EmptyMap == [x \in {} |-> 0]

\* this.store.requests is kept as the sequence of its entries, [key, data],
\* in insertion order: Map.set of a present key keeps its place.
ReqHas(rs, key) == \E i \in 1..Len(rs) : rs[i].key = key

ReqGet(rs, key) == rs[CHOOSE i \in 1..Len(rs) : rs[i].key = key].data

ReqSet(rs, key, data) ==
    IF ReqHas(rs, key)
    THEN [i \in 1..Len(rs) |->
            IF rs[i].key = key THEN [key |-> key, data |-> data] ELSE rs[i]]
    ELSE Append(rs, [key |-> key, data |-> data])

ReqDelete(rs, key) == SelectSeq(rs, LAMBDA e : e.key # key)

ReqKeys(rs) == {rs[i].key : i \in 1..Len(rs)}

----------------------------------------------------------------------------
(* Key and limit *)

\* generateKey(req); the default keyGenerator is req => req.ip.
GenerateKey(req) ==
    Join(<<req.ip>>
         \o (IF Len(config.routeLimits) > 0 THEN <<req.path>> ELSE <<>>)
         \o (IF DOMAIN config.methodLimits # {} THEN <<req.method>> ELSE <<>>))

\* getRouteLimit(path): the limit of the first pattern, in the order of
\* Object.entries(routeLimits), that matches; maxRequests when none does.
GetRouteLimit(path) ==
    LET hits == {i \in 1..Len(config.routeLimits) :
                    RegExpTest(config.routeLimits[i].pattern, path)}
    IN  IF hits = {} THEN config.maxRequests
        ELSE LET j == CHOOSE i \in hits : \A h \in hits : i <= h
             IN  config.routeLimits[j].limit

\* getMethodLimit(method): methodLimits[method] || maxRequests.
GetMethodLimit(method) ==
    IF method \in DOMAIN config.methodLimits /\ config.methodLimits[method] # 0
    THEN config.methodLimits[method]
    ELSE config.maxRequests

\* isRateLimited, lines 89-91: Math.min(routeLimit, methodLimit).
EffectiveLimit(req) == Min(GetRouteLimit(req.path), GetMethodLimit(req.method))

----------------------------------------------------------------------------
(* The store operations.  st is [requests, violations, bans]. *)

\* A mutation of the sliding filter: a timestamp exactly windowMs old stays.
InWindowClosed(time, t) == t - time <= config.windowMs

\* The sliding filter's test, line 95: now - time < windowMs.
InWindow(time, t) == t - time < config.windowMs

\* A mutation of the fixed-window test: a reset only after a whole window.
WindowCrossedLate(firstRequest, t) == t - firstRequest >= config.windowMs

\* The fixed-window test, lines 99-100: firstRequest < windowStart, with
\* windowStart = Math.floor(now / windowMs) * windowMs.
WindowCrossed(firstRequest, t) ==
    firstRequest < (t \div config.windowMs) * config.windowMs

\* A mutation of banIP: the duration is multiplied by the violation count.
BanIPEscalating(st, key, t) ==
    LET n == IF key \in DOMAIN st.violations THEN st.violations[key].count ELSE 0
    IN  [st EXCEPT !.bans = MapSet(@, key,
            [timestamp  |-> t,
             violations |-> n,
             expiresAt  |-> t + n * config.autoBan.banDurationMs])]

\* banIP(key, req)
BanIP(st, key, t) ==
    [st EXCEPT !.bans = MapSet(@, key,
        [timestamp  |-> t,
         violations |-> IF key \in DOMAIN st.violations
                        THEN st.violations[key].count ELSE 0,
         expiresAt  |-> t + config.autoBan.banDurationMs])]

\* A mutation of handleViolation: the ban comes one violation late.
HandleViolationLate(st, key, t) ==
    LET old == IF key \in DOMAIN st.violations THEN st.violations[key]
               ELSE [count |-> 0, timestamps |-> <<>>]
        new == [count |-> old.count + 1, timestamps |-> Append(old.timestamps, t)]
        st2 == [st EXCEPT !.violations = MapSet(@, key, new)]
    IN  IF config.autoBan.enabled /\ new.count > config.autoBan.maxViolations
        THEN BanIP(st2, key, t)
        ELSE st2

\* handleViolation(key, req)
HandleViolation(st, key, t) ==
    LET old == IF key \in DOMAIN st.violations THEN st.violations[key]
               ELSE [count |-> 0, timestamps |-> <<>>]
        new == [count |-> old.count + 1, timestamps |-> Append(old.timestamps, t)]
        st2 == [st EXCEPT !.violations = MapSet(@, key, new)]
    IN  IF config.autoBan.enabled /\ new.count >= config.autoBan.maxViolations
        THEN BanIP(st2, key, t)
        ELSE st2

\* isRateLimited(key, req): the store afterwards, whether the request is
\* over the limit, and the count and limit compared.
IsRateLimited(st, key, req, t) ==
    LET data  == IF ReqHas(st.requests, key) THEN ReqGet(st.requests, key)
                 ELSE [count |-> 0, firstRequest |-> t, requests |-> <<>>]
        limit == EffectiveLimit(req)
        kept  == SelectSeq(data.requests, LAMBDA time : InWindow(time, t))
        d1    == IF config.windowType = "sliding"
                 THEN [data EXCEPT !.requests = kept, !.count = Len(kept)]
                 ELSE IF WindowCrossed(data.firstRequest, t)
                      THEN [count |-> 0, firstRequest |-> t, requests |-> <<>>]
                      ELSE data
        d2    == [d1 EXCEPT !.requests = Append(@, t), !.count = @ + 1]
        st2   == [st EXCEPT !.requests = ReqSet(@, key, d2)]
    IN  [store   |-> IF d2.count > limit THEN HandleViolation(st2, key, t) ELSE st2,
         limited |-> d2.count > limit,
         count   |-> d2.count,
         limit   |-> limit,
         routeLimit |-> GetRouteLimit(req.path)]

\* A mutation of isIPBanned: the ban ends at expiresAt, not after it.
BanExpiredEarly(ban, t) == t >= ban.expiresAt

\* The expiry test of isIPBanned, line 150: Date.now() > ban.expiresAt.
BanExpired(ban, t) == t > ban.expiresAt

\* isIPBanned(key): the store afterwards (an expired ban is deleted) and
\* the answer.
IsIPBanned(st, key, t) ==
    IF key \notin DOMAIN st.bans THEN [store |-> st, banned |-> FALSE]
    ELSE IF BanExpired(st.bans[key], t)
         THEN [store |-> [st EXCEPT !.bans = MapDelete(@, key)], banned |-> FALSE]
         ELSE [store |-> st, banned |-> TRUE]

\* getRateLimitInfo(key): the store afterwards (it calls isIPBanned) and
\* the figures the headers are written from.
GetRateLimitInfo(st, key, t) ==
    LET has == ReqHas(st.requests, key)
        cnt == IF has THEN ReqGet(st.requests, key).count ELSE 0
        b   == IsIPBanned(st, key, t)
    IN  [store     |-> b.store,
         requests  |-> cnt,
         remaining |-> Max(0, config.maxRequests - cnt),
         banned    |-> b.banned,
         resetTime |-> IF has THEN ReqGet(st.requests, key).firstRequest + config.windowMs
                       ELSE t]

\* The response of a request that handleRateLimit did not answer.
NoHeaders ==
    [sent |-> FALSE, limit |-> 0, remaining |-> 0, resetTime |-> 0, reset |-> 0]

\* Math.ceil(ms / 1000), line 284: milliseconds rounded up to whole seconds.
CeilSeconds(ms) == -((-ms) \div 1000)

\* handleRateLimit(req, res, key, logger, isBanned) with no custom handler:
\* with headers enabled it reads getRateLimitInfo before it sends the
\* denial.  The result is the store afterwards and the figures written to
\* X-RateLimit-Limit, X-RateLimit-Remaining and X-RateLimit-Reset (reset),
\* with the time in milliseconds (resetTime) that reset is rounded up from.
HandleRateLimit(st, key, t) ==
    LET info == GetRateLimitInfo(st, key, t)
    IN  IF config.headers
        THEN [store   |-> info.store,
              headers |-> [sent |-> TRUE, limit |-> config.maxRequests,
                           remaining |-> info.remaining,
                           resetTime |-> info.resetTime,
                           reset |-> CeilSeconds(info.resetTime)]]
        ELSE [store |-> st, headers |-> NoHeaders]

\* The two early returns of the middleware, lines 219-220.
Skipped(req) ==
    \/ req \in config.skip
    \/ config.skipOptions /\ req.method = <<"O", "P", "T", "I", "O", "N", "S">>

\* A mutation of the middleware: the blacklist is consulted before the
\* whitelist.
GateBlacklistFirst(st, req, t) ==
    LET key == GenerateKey(req)
        ban == IsIPBanned(st, key, t)
        rl  == IsRateLimited(ban.store, key, req, t)
        no  == [count |-> 0, limit |-> 0, routeLimit |-> 0, headers |-> NoHeaders]
    IN  IF Skipped(req)
        THEN [store |-> st, outcome |-> "ALLOW", branch |-> "skip"] @@ no
        ELSE IF key \in config.blacklist
        THEN HandleRateLimit(st, key, t) @@ [outcome |-> "RATE_LIMITED",
              branch |-> "blacklist"] @@ no
        ELSE IF key \in config.whitelist
        THEN [store |-> st, outcome |-> "ALLOW", branch |-> "whitelist"] @@ no
        ELSE IF ban.banned
        THEN HandleRateLimit(ban.store, key, t) @@ [outcome |-> "BANNED",
              branch |-> "banned"] @@ no
        ELSE IF rl.limited
        THEN HandleRateLimit(rl.store, key, t) @@ [outcome |-> "RATE_LIMITED",
              branch |-> "limited", count |-> rl.count, limit |-> rl.limit,
              routeLimit |-> rl.routeLimit]
        ELSE [store |-> rl.store, headers |-> NoHeaders, outcome |-> "ALLOW",
              branch |-> "counted",
              count |-> rl.count, limit |-> rl.limit, routeLimit |-> rl.routeLimit]

\* A mutation of the middleware: the request is counted before the ban is
\* looked up, so a banned key's request still adds to its records.
GateCountingFirst(st, req, t) ==
    LET key == GenerateKey(req)
        rl  == IsRateLimited(st, key, req, t)
        ban == IsIPBanned(rl.store, key, t)
        no  == [count |-> 0, limit |-> 0, routeLimit |-> 0, headers |-> NoHeaders]
    IN  IF Skipped(req)
        THEN [store |-> st, outcome |-> "ALLOW", branch |-> "skip"] @@ no
        ELSE IF key \in config.whitelist
        THEN [store |-> st, outcome |-> "ALLOW", branch |-> "whitelist"] @@ no
        ELSE IF key \in config.blacklist
        THEN HandleRateLimit(st, key, t) @@ [outcome |-> "RATE_LIMITED",
              branch |-> "blacklist"] @@ no
        ELSE IF ban.banned
        THEN HandleRateLimit(ban.store, key, t) @@ [outcome |-> "BANNED",
              branch |-> "banned"] @@ no
        ELSE IF rl.limited
        THEN HandleRateLimit(ban.store, key, t) @@ [outcome |-> "RATE_LIMITED",
              branch |-> "limited", count |-> rl.count, limit |-> rl.limit,
              routeLimit |-> rl.routeLimit]
        ELSE [store |-> ban.store, headers |-> NoHeaders, outcome |-> "ALLOW",
              branch |-> "counted",
              count |-> rl.count, limit |-> rl.limit, routeLimit |-> rl.routeLimit]

\* The middleware's decision for one request, lines 217-253 and 271: the
\* store afterwards, the outcome, the branch that decided it, and the count
\* and limits isRateLimited compared when it was reached.
Gate(st, req, t) ==
    LET key == GenerateKey(req)
        ban == IsIPBanned(st, key, t)
        rl  == IsRateLimited(ban.store, key, req, t)
        no  == [count |-> 0, limit |-> 0, routeLimit |-> 0, headers |-> NoHeaders]
    IN  IF Skipped(req)
        THEN [store |-> st, outcome |-> "ALLOW", branch |-> "skip"] @@ no
        ELSE IF key \in config.whitelist
        THEN [store |-> st, outcome |-> "ALLOW", branch |-> "whitelist"] @@ no
        ELSE IF key \in config.blacklist
        THEN HandleRateLimit(st, key, t) @@ [outcome |-> "RATE_LIMITED",
              branch |-> "blacklist"] @@ no
        ELSE IF ban.banned
        THEN HandleRateLimit(ban.store, key, t) @@ [outcome |-> "BANNED",
              branch |-> "banned"] @@ no
        ELSE IF rl.limited
        THEN HandleRateLimit(rl.store, key, t) @@ [outcome |-> "RATE_LIMITED",
              branch |-> "limited", count |-> rl.count, limit |-> rl.limit,
              routeLimit |-> rl.routeLimit]
        ELSE [store |-> rl.store, headers |-> NoHeaders, outcome |-> "ALLOW",
              branch |-> "counted",
              count |-> rl.count, limit |-> rl.limit, routeLimit |-> rl.routeLimit]

\* Array.prototype.sort by firstRequest, which is stable: entries of equal
\* firstRequest stay in Map insertion order.  The entry at index i goes to
\* the place after all entries that are older, or as old and earlier in the
\* Map.
OldestFirst(rs) ==
    LET before(i) == {j \in 1..Len(rs) :
                        \/ rs[j].data.firstRequest < rs[i].data.firstRequest
                        \/ /\ rs[j].data.firstRequest = rs[i].data.firstRequest
                           /\ j < i}
    IN  [p \in 1..Len(rs) |->
            rs[CHOOSE i \in 1..Len(rs) : Cardinality(before(i)) = p - 1]]

\* A mutation of the cleanup of requests: a record expires as soon as its
\* first request lies in the past.
RequestExpiredAtOnce(data, t) == t - data.firstRequest > 0

\* The cleanup of this.store.requests, lines 178-182.
RequestExpired(data, t) == t - data.firstRequest > config.windowMs

\* A mutation of the cleanup of bans: a ban is deleted at its expiresAt.
BansKeptEarly(bs, t) == [k \in {x \in DOMAIN bs : t < bs[x].expiresAt} |-> bs[k]]

\* The cleanup of this.store.bans, lines 185-189: a ban is deleted when
\* now > ban.expiresAt.
BansKept(bs, t) == [k \in {x \in DOMAIN bs : ~(t > bs[x].expiresAt)} |-> bs[k]]

\* A mutation of the cleanup of violations: a timestamp exactly
\* 2 * windowMs old is kept.
ViolationsKeptLate(vs, t) ==
    LET ts(k) == SelectSeq(vs[k].timestamps,
                           LAMBDA time : t - time <= config.windowMs * 2)
    IN  [k \in {x \in DOMAIN vs : Len(ts(x)) # 0} |->
            [count |-> Len(ts(k)), timestamps |-> ts(k)]]

\* The cleanup of this.store.violations, lines 191-202: the timestamps
\* with now - time < windowMs * 2 stay, a record left with none is deleted,
\* and count becomes the number of those that stay.
ViolationsKept(vs, t) ==
    LET ts(k) == SelectSeq(vs[k].timestamps,
                           LAMBDA time : t - time < config.windowMs * 2)
    IN  [k \in {x \in DOMAIN vs : Len(ts(x)) # 0} |->
            [count |-> Len(ts(k)), timestamps |-> ts(k)]]

\* The callback of startCleanup's setInterval, lines 175-212.
Cleanup(st, t) ==
    LET r1 == SelectSeq(st.requests, LAMBDA e : ~RequestExpired(e.data, t))
        b1 == BansKept(st.bans, t)
        v1 == ViolationsKept(st.violations, t)
        n  == config.maxStoreSize \div 5
        sorted == OldestFirst(r1)
        gone == {sorted[i].key : i \in 1..Min(n, Len(sorted))}
        r2 == IF Len(r1) > config.maxStoreSize
              THEN SelectSeq(r1, LAMBDA e : e.key \notin gone)
              ELSE r1
    IN  [requests |-> r2, violations |-> v1, bans |-> b1]

\* The three stores after construction, lines 52-56, and after clear().
EmptyStore == [requests |-> <<>>, violations |-> EmptyMap, bans |-> EmptyMap]

\* reset(key) called with a string: the test if (key) fails for the empty
\* string, which takes the branch that clears the three stores.
ResetKey(st, key) ==
    IF Len(key) # 0
    THEN [requests   |-> ReqDelete(st.requests, key),
          violations |-> MapDelete(st.violations, key),
          bans       |-> MapDelete(st.bans, key)]
    ELSE EmptyStore

\* The middleware's test of line 256: a 'finish' listener is put on the
\* response of a request that passed isRateLimited.
ListensForFinish == config.skipSuccessfulRequests \/ config.skipFailedRequests

\* Array.prototype.pop: the last element is removed, an empty array stays
\* empty.
Pop(seq) == IF Len(seq) = 0 THEN seq ELSE SubSeq(seq, 1, Len(seq) - 1)

\* The status codes a response finishes with: one below 400, one not.
StatusCodes == {200, 500}

\* The 'finish' listener of lines 257-268 for the response of a request of
\* key that ended with statusCode.
OnFinish(st, key, statusCode) ==
    LET successful == statusCode < 400
        data == ReqGet(st.requests, key)
    IN  IF \/ successful /\ config.skipSuccessfulRequests
           \/ ~successful /\ config.skipFailedRequests
        THEN IF ReqHas(st.requests, key)
             THEN [st EXCEPT !.requests =
                      ReqSet(@, key, [data EXCEPT !.count = @ - 1,
                                                  !.requests = Pop(@)])]
             ELSE st
        ELSE st

----------------------------------------------------------------------------
(* Actions *)

Store == [requests |-> requests, violations |-> violations, bans |-> bans]

SetStore(st) ==
    /\ requests' = st.requests
    /\ violations' = st.violations
    /\ bans' = st.bans

\* The clock advances between handlers.
Tick ==
    /\ now < MaxTime
    /\ now' = now + 1
    /\ UNCHANGED <<config, requests, violations, bans, log, responses, wsVars>>

\* One request passes through the middleware.
Middleware(req) ==
    /\ Len(log) < MaxReqs
    /\ LET g == Gate(Store, req, now)
       IN  /\ SetStore(g.store)
           /\ log' = Append(log, [op |-> "request", req |-> req, key |-> GenerateKey(req),
                                  at |-> now, outcome |-> g.outcome, branch |-> g.branch,
                                  count |-> g.count, limit |-> g.limit,
                                  routeLimit |-> g.routeLimit, headers |-> g.headers])
           /\ responses' = IF g.branch = "counted" /\ ListensForFinish
                            THEN Append(responses, [key |-> GenerateKey(req),
                                                    request |-> Len(log) + 1,
                                                    at |-> now, statusCode |-> 0])
                            ELSE responses
    /\ UNCHANGED <<now, config, wsVars>>

\* A response is sent: its 'finish' event runs the listener of line 257.
Finish(n, statusCode) ==
    /\ n \in DOMAIN responses
    /\ responses[n].statusCode = 0
    /\ SetStore(OnFinish(Store, responses[n].key, statusCode))
    /\ responses' = [responses EXCEPT ![n].statusCode = statusCode]
    /\ UNCHANGED <<now, config, log, wsVars>>

\* The cleanup timer fires.
Janitor ==
    /\ SetStore(Cleanup(Store, now))
    /\ UNCHANGED <<now, config, log, responses, wsVars>>

\* reset(key) is called for a key that has a record.
Reset(key) ==
    /\ Len(log) < MaxReqs
    /\ key \in ReqKeys(requests) \cup DOMAIN violations \cup DOMAIN bans
    /\ SetStore(ResetKey(Store, key))
    /\ log' = Append(log, [op |-> "reset", req |-> <<>>, key |-> key, at |-> now,
                           outcome |-> "NONE", branch |-> "reset",
                           count |-> 0, limit |-> 0, routeLimit |-> 0,
                           headers |-> NoHeaders])
    /\ UNCHANGED <<now, config, responses, wsVars>>

\* reset() is called without a key while a store holds a record.
ResetAll ==
    /\ Len(log) < MaxReqs
    /\ Store # EmptyStore
    /\ SetStore(EmptyStore)
    /\ log' = Append(log, [op |-> "resetAll", req |-> <<>>, key |-> <<>>, at |-> now,
                           outcome |-> "NONE", branch |-> "reset",
                           count |-> 0, limit |-> 0, routeLimit |-> 0,
                           headers |-> NoHeaders])
    /\ UNCHANGED <<now, config, responses, wsVars>>

----------------------------------------------------------------------------
(* WebSocketSupport: configuration and state after construction *)

\* The constructor's config, lines 3-45, at the scale of the model: the
\* heartbeat fires every 2 ticks and a connection whose last pong is more
\* than 1 tick old is terminated, as the defaults (30000 and 5000 ms) have
\* heartbeatInterval > pingTimeout.
WsBaseConfig ==
    [heartbeatInterval |-> 2,
     maxConnections    |-> 2,
     pingTimeout       |-> 1,
     rateLimiting      |-> [enabled |-> TRUE, maxConnectionsPerIP |-> 1,
                            windowMs |-> 2, maxMessages |-> 1],
     auth              |-> [enabled |-> FALSE, timeout |-> 2]]

\* A ws object the server has not yet emitted 'connection' for.
NoSocket == [readyState |-> "NONE", ip |-> "", phase |-> "none", listening |-> FALSE]

\* The sockets a behaviour can see connect.
Sockets == 1..MaxSockets

\* The state after the constructor, lines 47-60, and the first call of
\* middleware(logger)(expressServer), lines 64-78, for a configuration of cs.
WsConstructed(cs) ==
    /\ wsConfig \in cs
    /\ sockets = [s \in Sockets |-> NoSocket]
    /\ connections = EmptyMap
    /\ activeConnections = 0
    /\ errors = 0
    /\ rateLimiters = EmptyMap
    /\ timers = {}
    /\ wss = "running"
    /\ delivered = <<>>

----------------------------------------------------------------------------
(* Configurations and requests *)

GET == <<"G", "E", "T">>

OPTIONS == <<"O", "P", "T", "I", "O", "N", "S">>

\* The constructor's config, lines 3-49, at the scale of the model: a
\* window of 2 ticks and a limit of 1.
BaseConfig ==
    [windowMs     |-> 2,
     maxRequests  |-> 1,
     windowType   |-> "sliding",
     headers      |-> TRUE,
     skipSuccessfulRequests |-> FALSE,
     skipFailedRequests     |-> FALSE,
     skipOptions  |-> FALSE,
     skip         |-> {},
     routeLimits  |-> <<>>,
     methodLimits |-> EmptyMap,
     whitelist    |-> {},
     blacklist    |-> {},
     autoBan      |-> [enabled |-> FALSE, maxViolations |-> 2, banDurationMs |-> 2],
     maxStoreSize |-> 10]

Request(ip, path, method) == [ip |-> ip, path |-> path, method |-> method]

\* The state after construction, lines 52-56, for a configuration of cs.
InitWith(cs) ==
    /\ now = 0
    /\ config \in cs
    /\ requests = <<>>
    /\ violations = EmptyMap
    /\ bans = EmptyMap
    /\ log = <<>>
    /\ responses = <<>>
    /\ WsConstructed({WsBaseConfig})

----------------------------------------------------------------------------
(* Sliding windows: two clients, limits 1 and 2, windows of 2 and 3 ticks *)

SlidingConfigs ==
    {[BaseConfig EXCEPT !.maxRequests = m, !.windowMs = w] : m \in {1, 2}, w \in {2, 3}}

PlainRequests == {Request(<<ip>>, <<"/">>, GET) : ip \in {"a", "b"}}

InitSliding == InitWith(SlidingConfigs)

NextSliding == Tick \/ Janitor \/ \E req \in PlainRequests : Middleware(req)

SpecSliding == InitSliding /\ [][NextSliding]_vars

\* The log's entries that went through isRateLimited.
Counted(i) == log[i].op = "request" /\ log[i].branch \in {"counted", "limited"}

\* The earlier admits of entry i's key.
EarlierAdmits(i) == {j \in 1..(i - 1) : Counted(j) /\ log[j].key = log[i].key}

\* C1: in sliding mode the count an admit at time now produces is the number
\* of the key's earlier admits with a timestamp in [now - windowMs, now],
\* plus one.  Stated for the admits with no earlier timestamp exactly
\* windowMs old, where the closed window of the claim's first sentence and
\* the test now - t < windowMs of its second sentence select the same
\* timestamps.
C1_SlidingCountIsAdmitsInWindow ==
    \A i \in 1..Len(log) :
        (/\ Counted(i)
         /\ config.windowType = "sliding"
         /\ \A j \in EarlierAdmits(i) : log[i].at - log[j].at # config.windowMs)
        => log[i].count =
             Cardinality({j \in EarlierAdmits(i) :
                            /\ log[i].at - config.windowMs <= log[j].at
                            /\ log[j].at <= log[i].at}) + 1

\* C2: in sliding mode no key gets more ALLOWs than its limit inside a time
\* interval of length windowMs (taken half open, [s, s + windowMs)), however
\* requests and cleanup passes interleave.
C2_SlidingAllowsWithinLimit ==
    \A i \in 1..Len(log) :
        (Counted(i) /\ config.windowType = "sliding")
        => Cardinality({j \in 1..i :
                          /\ log[j].op = "request"
                          /\ log[j].key = log[i].key
                          /\ log[j].outcome = "ALLOW"
                          /\ log[i].at - log[j].at < config.windowMs}) <= log[i].limit

----------------------------------------------------------------------------
(* Fixed windows *)

FixedConfigs ==
    {[BaseConfig EXCEPT !.windowType = "fixed", !.maxRequests = m, !.windowMs = w] :
        m \in {1, 2}, w \in {2, 3}}

InitFixed == InitWith(FixedConfigs)

NextFixed == Tick \/ Janitor \/ \E req \in PlainRequests : Middleware(req)

SpecFixed == InitFixed /\ [][NextFixed]_vars

\* The step handled a request (or a reset) and appended it to the log.
Logged == Len(log') = Len(log) + 1

Last == log'[Len(log')]

\* The start of the windowMs-aligned bucket that holds time t.
Bucket(t) == t - (t % config.windowMs)

\* C3: in fixed mode a request resets its key's count to 1 exactly when its
\* time lies in a later windowMs-aligned bucket than the record's window
\* start; any other request adds exactly 1 to the count (a key with no
\* record starts at 1).
C3_FixedResetOnLaterBucket ==
    [][(Logged /\ Last.op = "request" /\ Last.branch \in {"counted", "limited"}
          /\ config.windowType = "fixed")
       => LET new == ReqGet(requests', Last.key)
          IN  IF ~ReqHas(requests, Last.key)
              THEN new.count = 1 /\ new.firstRequest = now
              ELSE LET old == ReqGet(requests, Last.key)
                   IN  IF Bucket(now) > Bucket(old.firstRequest)
                       THEN new.count = 1 /\ new.firstRequest = now
                       ELSE /\ new.count = old.count + 1
                            /\ new.firstRequest = old.firstRequest]_vars

\* A key's count went to 2 and, within one windowMs of all its earlier
\* requests (so no cleanup pass could have dropped the record), back to 1.
C3_Witness ==
    /\ config.windowType = "fixed"
    /\ \E j \in 1..Len(log) :
          /\ Counted(j)
          /\ log[j].count = 1
          /\ \A i \in EarlierAdmits(j) : log[j].at - log[i].at <= config.windowMs
          /\ \E i \in EarlierAdmits(j) : log[i].count = 2

\* The requests of entry i's key that were ALLOWed in the windowMs-aligned
\* bucket of entry i.
AllowedInBucket(i) ==
    {j \in 1..Len(log) :
        /\ log[j].op = "request"
        /\ log[j].key = log[i].key
        /\ log[j].outcome = "ALLOW"
        /\ Bucket(log[j].at) = Bucket(log[i].at)}

\* C38: in fixed mode, with skipSuccessfulRequests and skipFailedRequests
\* off and the store below maxStoreSize, no key gets more ALLOWs than its
\* effective limit inside one windowMs-aligned bucket, however requests and
\* cleanup passes interleave.
C38_FixedAllowsPerBucketWithinLimit ==
    \A i \in 1..Len(log) :
        (Counted(i) /\ config.windowType = "fixed" /\ ~ListensForFinish)
        => Cardinality(AllowedInBucket(i)) <= log[i].limit

\* A key was ALLOWed up to its limit in one bucket and then denied in that
\* bucket, and a cleanup pass has since deleted its record.
C38_Witness ==
    /\ config.windowType = "fixed"
    /\ \E i \in 1..Len(log) :
          /\ log[i].outcome = "RATE_LIMITED"
          /\ Cardinality(AllowedInBucket(i)) = log[i].limit
          /\ ~ReqHas(requests, log[i].key)

----------------------------------------------------------------------------
(* Automatic bans that last 2 ticks, and reset(key): a ban after 2
   violations with two clients; a ban after 1 violation with skipOptions
   on; a ban after 1 violation with a blacklisted client *)

BanConfig(n, o, bl) ==
    [BaseConfig EXCEPT !.autoBan = [enabled |-> TRUE, maxViolations |-> n,
                                    banDurationMs |-> 2],
                       !.skipOptions = o,
                       !.blacklist = bl]

BanConfigs ==
    {BanConfig(2, FALSE, {}), BanConfig(1, TRUE, {}), BanConfig(1, FALSE, {<<"b">>})}

\* With skipOptions on, one client sends GET and OPTIONS requests; without
\* it (where OPTIONS requests take the path of GET requests) two clients
\* send GET requests.
BanRequests ==
    IF config.skipOptions
    THEN {Request(<<"a">>, <<"/">>, GET), Request(<<"a">>, <<"/">>, OPTIONS)}
    ELSE {Request(<<"a">>, <<"/">>, GET), Request(<<"b">>, <<"/">>, GET)}

InitBan == InitWith(BanConfigs)

NextBan ==
    \/ Tick
    \/ Janitor
    \/ \E req \in BanRequests : Middleware(req)
    \/ \E key \in {GenerateKey(req) : req \in BanRequests} : Reset(key)

SpecBan == InitBan /\ [][NextBan]_vars

\* C4: with autoBan enabled, the request whose violation brings the key's
\* violation count to autoBan.maxViolations (or beyond) creates, in that same
\* call, a ban that expires exactly banDurationMs after the request; and no
\* step changes the expiry of a ban in any other way.
C4_BanLastsExactlyBanDuration ==
    [][/\ (Logged /\ Last.op = "request" /\ Last.branch = "limited"
             /\ config.autoBan.enabled
             /\ violations'[Last.key].count >= config.autoBan.maxViolations)
          => /\ Last.key \in DOMAIN bans'
             /\ bans'[Last.key].timestamp = now
             /\ bans'[Last.key].expiresAt = now + config.autoBan.banDurationMs
       /\ \A k \in DOMAIN bans \cap DOMAIN bans' :
             \/ bans'[k] = bans[k]
             \/ bans'[k].expiresAt = now + config.autoBan.banDurationMs]_vars

\* The second violation of a key has just created its ban.
C4_Witness ==
    /\ Len(log) > 0
    /\ log[Len(log)].branch = "limited"
    /\ log[Len(log)].at = now
    /\ config.autoBan.maxViolations = 2
    /\ log[Len(log)].key \in DOMAIN violations
    /\ violations[log[Len(log)].key].count = 2
    /\ log[Len(log)].key \in DOMAIN bans
    /\ bans[log[Len(log)].key].timestamp = now

\* C5 as stated: while a key's ban is in force (up to and including
\* expiresAt), every request of that key ends BANNED.
C5_EveryRequestOfBannedKeyIsBanned ==
    [][(Logged /\ Last.op = "request"
          /\ Last.key \in DOMAIN bans /\ now <= bans[Last.key].expiresAt)
       => Last.outcome = "BANNED"]_vars

\* C5, amended: a ban stays as it is until its expiresAt unless reset(key)
\* removes it; until then every request of the key that the skip predicate
\* or skipOptions does not exempt ends BANNED; the first such request after
\* expiresAt is not BANNED, finds the expired ban deleted, and is counted
\* in the window.
C5_BannedUntilExpiresAt ==
    [][/\ \A k \in DOMAIN bans :
             (/\ now' <= bans[k].expiresAt
              /\ ~(Logged /\ Last.op = "reset" /\ Last.key = k))
             => k \in DOMAIN bans' /\ bans'[k] = bans[k]
       /\ (Logged /\ Last.op = "request" /\ Last.branch # "skip"
             /\ Last.key \in DOMAIN bans)
          => IF now <= bans[Last.key].expiresAt
             THEN Last.outcome = "BANNED"
             ELSE /\ Last.outcome # "BANNED"
                  /\ Last.branch \in {"counted", "limited"}
                  /\ ReqGet(requests', Last.key).requests # <<>>
                  /\ \/ Last.key \notin DOMAIN bans'
                     \/ bans'[Last.key].timestamp = now]_vars

\* A key was BANNED at the very time its ban expires and, later, counted
\* again.
C5_Witness ==
    \E i \in 1..Len(log) : \E j \in 1..Len(log) : \E k \in 1..Len(log) :
        /\ i < j /\ j < k
        /\ log[i].key = log[j].key /\ log[j].key = log[k].key
        /\ log[i].branch = "limited"
        /\ log[j].outcome = "BANNED"
        /\ log[j].at = log[i].at + config.autoBan.banDurationMs
        /\ log[k].branch \in {"counted", "limited"}
        /\ log[k].at > log[j].at
        /\ \A m \in i..k : log[m].op # "reset"

\* The next request of entry i's key after entry i, or 0.
NextRequest(i) ==
    LET later == {j \in (i + 1)..Len(log) :
                    log[j].op = "request" /\ log[j].key = log[i].key}
    IN  IF later = {} THEN 0 ELSE CHOOSE j \in later : \A m \in later : j <= m

\* C10 as stated: once a key has received autoBan.maxViolations RATE_LIMITED
\* outcomes within the violation horizon of 2 * windowMs, its next request
\* is BANNED.
C10_NextRequestAfterNViolationsIsBanned ==
    \A i \in 1..Len(log) :
        (/\ config.autoBan.enabled
         /\ log[i].outcome = "RATE_LIMITED"
         /\ Cardinality({j \in 1..i :
                           /\ log[j].key = log[i].key
                           /\ log[j].outcome = "RATE_LIMITED"
                           /\ log[i].at - log[j].at < 2 * config.windowMs})
               >= config.autoBan.maxViolations
         /\ NextRequest(i) # 0)
        => log[NextRequest(i)].outcome = "BANNED"

\* The next request of entry i's key after entry i that is not exempted by
\* the skip predicate or skipOptions, or 0.
NextGatedRequest(i) ==
    LET later == {j \in (i + 1)..Len(log) :
                    /\ log[j].op = "request"
                    /\ log[j].key = log[i].key
                    /\ log[j].branch # "skip"}
    IN  IF later = {} THEN 0 ELSE CHOOSE j \in later : \A m \in later : j <= m

\* The violations of entry i's key up to entry i that lie within the
\* horizon of entry i, with no reset of the key since.
ViolationsInHorizon(i) ==
    {j \in 1..i :
        /\ log[j].key = log[i].key
        /\ log[j].branch = "limited"
        /\ log[i].at - log[j].at < 2 * config.windowMs
        /\ \A m \in j..i : ~(log[m].op = "reset" /\ log[m].key = log[i].key)}

\* C10, amended: with autoBan enabled, once a key has been RATE_LIMITED for
\* exceeding its limit autoBan.maxViolations times within 2 * windowMs, with
\* no reset of the key in between, its next request that is not exempted by
\* the skip predicate or skipOptions is BANNED, provided it arrives no later
\* than banDurationMs after the last of those violations and the key was not
\* reset meanwhile.
C10_NextRequestWithinBanIsBanned ==
    \A i \in 1..Len(log) :
        (/\ config.autoBan.enabled
         /\ log[i].branch = "limited"
         /\ Cardinality(ViolationsInHorizon(i)) >= config.autoBan.maxViolations
         /\ NextGatedRequest(i) # 0
         /\ log[NextGatedRequest(i)].at <= log[i].at + config.autoBan.banDurationMs
         /\ \A m \in i..NextGatedRequest(i) :
               ~(log[m].op = "reset" /\ log[m].key = log[i].key))
        => log[NextGatedRequest(i)].outcome = "BANNED"

\* With maxViolations = 2, the third request over the limit is BANNED.
C10_Witness ==
    /\ config.autoBan.maxViolations = 2
    /\ \E i \in 1..Len(log) :
          /\ log[i].branch = "limited"
          /\ Cardinality(ViolationsInHorizon(i)) = 2
          /\ NextGatedRequest(i) # 0
          /\ log[NextGatedRequest(i)].outcome = "BANNED"

\* The violation timestamps of key k in the store that are within the
\* horizon of 2 * windowMs at time t.
InHorizon(vs, k, t) ==
    {n \in 1..Len(vs[k].timestamps) : t - vs[k].timestamps[n] < 2 * config.windowMs}

\* C26: the violation count handleViolation compares with maxViolations at
\* time now is the number of the key's violation timestamps with
\* now - t < 2 * windowMs, and a ban is created only when at least
\* maxViolations violations lie within that horizon, whenever the cleanup
\* timer has or has not run.
C26_ComparedCountIsViolationsInHorizon ==
    [][(Logged /\ Last.op = "request" /\ Last.branch = "limited")
       => /\ violations'[Last.key].count
               = Cardinality(InHorizon(violations', Last.key, now))
          /\ Last.key \in DOMAIN bans'
               => Cardinality(InHorizon(violations', Last.key, now))
                    >= config.autoBan.maxViolations]_vars

\* C31: every violation record has count = Len(timestamps) in every
\* reachable state, and a pass of the cleanup timer run in any reachable
\* state leaves no violation record with an empty timestamp sequence and
\* no violation timestamp t with now - t >= 2 * windowMs.
C31_ViolationRecordsWellFormed ==
    /\ \A k \in DOMAIN violations :
          violations[k].count = Len(violations[k].timestamps)
    /\ LET swept == Cleanup(Store, now).violations
       IN  \A k \in DOMAIN swept :
              /\ swept[k].count = Len(swept[k].timestamps)
              /\ Len(swept[k].timestamps) > 0
              /\ \A n \in 1..Len(swept[k].timestamps) :
                    now - swept[k].timestamps[n] < 2 * config.windowMs

\* A cleanup pass has pruned a violation record and left it in the store:
\* a key that was never reset has a violation record with fewer timestamps
\* than it had requests over the limit.
C31_Witness ==
    \E k \in DOMAIN violations :
        /\ \A i \in 1..Len(log) : log[i].op = "request"
        /\ Len(violations[k].timestamps)
             < Cardinality({i \in 1..Len(log) :
                              log[i].key = k /\ log[i].branch = "limited"})
        /\ Cleanup(Store, now).violations = violations

\* C32: the request whose violation takes the count to
\* autoBan.maxViolations, so that its own call creates the ban, is itself
\* answered BANNED, not RATE_LIMITED.
C32_TriggeringRequestIsBanned ==
    [][(/\ Logged
        /\ Last.op = "request"
        /\ Last.branch = "limited"
        /\ Last.key \in DOMAIN bans'
        /\ bans'[Last.key].timestamp = now)
       => Last.outcome = "BANNED"]_vars

\* The step handled a request of a key that was banned when it arrived: the
\* key has a ban and the time is not past the ban's expiresAt.
BannedKeyAsked ==
    /\ Logged
    /\ Last.op = "request"
    /\ Last.key \in DOMAIN bans
    /\ bans[Last.key].expiresAt >= now

\* C16 as stated: a request of a currently banned key ends as BANNED and
\* leaves the request, violation and ban records of every key unchanged.
C16_BannedKeyRequestIsBanned ==
    [][BannedKeyAsked
       => /\ Last.outcome = "BANNED"
          /\ Store' = Store]_vars

\* C16, amended: a request of a currently banned key that is not let through
\* by the skip predicate or skipOptions ends as BANNED; and every request of
\* a currently banned key leaves the request, violation and ban records of
\* every key unchanged.
C16_BannedKeyRequestChangesNothing ==
    [][BannedKeyAsked
       => /\ Last.branch # "skip" => Last.outcome = "BANNED"
          /\ Store' = Store]_vars

\* A request ended as BANNED while its key had a request record, a
\* violation record and a ban.
C16_Witness ==
    \E i \in 1..Len(log) :
        /\ log[i].outcome = "BANNED"
        /\ ReqHas(requests, log[i].key)
        /\ log[i].key \in DOMAIN violations
        /\ log[i].key \in DOMAIN bans

----------------------------------------------------------------------------
(* The whitelist and the blacklist: client a whitelisted, client b
   blacklisted and client c on neither list; then b blacklisted, a on both
   lists and skipOptions on *)

GateConfigs ==
    {[BaseConfig EXCEPT !.whitelist = {<<"a">>}, !.blacklist = {<<"b">>}],
     [BaseConfig EXCEPT !.whitelist = {<<"a">>}, !.blacklist = {<<"a">>, <<"b">>},
                        !.skipOptions = TRUE]}

GateRequests ==
    IF config.skipOptions
    THEN {Request(<<"a">>, <<"/">>, GET), Request(<<"b">>, <<"/">>, OPTIONS)}
    ELSE {Request(<<ip>>, <<"/">>, GET) : ip \in {"a", "b", "c"}}

InitGate == InitWith(GateConfigs)

NextGate == Tick \/ Janitor \/ \E req \in GateRequests : Middleware(req)

SpecGate == InitGate /\ [][NextGate]_vars

\* C6: a request whose key is on the whitelist ends in ALLOW, however many
\* requests the key has sent, and leaves the three stores as they were.
C6_WhitelistedKeyIsAllowed ==
    [][(Logged /\ Last.op = "request" /\ Last.key \in config.whitelist)
       => /\ Last.outcome = "ALLOW"
          /\ UNCHANGED <<requests, violations, bans>>]_vars

\* A whitelisted key was let through more often at one instant than
\* maxRequests allows.
C6_Witness ==
    \E i \in 1..Len(log) :
        /\ log[i].branch = "whitelist"
        /\ log[i].outcome = "ALLOW"
        /\ Cardinality({j \in 1..i : log[j].key = log[i].key /\ log[j].at = log[i].at})
              > config.maxRequests

\* C7: a request whose key is on the blacklist never ends in ALLOW, whatever
\* the configuration.  Stated for the keys that are not on the whitelist as
\* well, which leaves the requests the skip predicate or skipOptions matches.
C7_BlacklistedKeyNeverAllowed ==
    \A i \in 1..Len(log) :
        (/\ log[i].op = "request"
         /\ log[i].key \in config.blacklist
         /\ log[i].key \notin config.whitelist)
        => log[i].outcome # "ALLOW"

----------------------------------------------------------------------------
(* Route and method limits *)

POST == <<"P", "O", "S", "T">>

RouteLimit(pattern, limit) == [pattern |-> pattern, limit |-> limit]

\* A route limit above maxRequests; two patterns that both match /xy, the
\* looser one configured first; a route limit and a method limit together.
LimitConfigs ==
    {[BaseConfig EXCEPT !.maxRequests = 2,
                        !.routeLimits = <<RouteLimit(<<"/", "x">>, 3)>>],
     [BaseConfig EXCEPT !.maxRequests = 3,
                        !.routeLimits = <<RouteLimit(<<"/", "x">>, 2),
                                          RouteLimit(<<"/", "x", "y">>, 1)>>],
     [BaseConfig EXCEPT !.maxRequests = 3,
                        !.routeLimits = <<RouteLimit(<<"/", "x">>, 2)>>,
                        !.methodLimits = (POST :> 1)]}

\* Two kinds of request per configuration: a path the pattern matches and
\* one it does not; a path the first pattern matches and one both match; a
\* method with a limit of its own and one without.
LimitRequests ==
    IF DOMAIN config.methodLimits # {}
    THEN {Request(<<"a">>, <<"/", "x">>, GET), Request(<<"a">>, <<"/", "x">>, POST)}
    ELSE IF Len(config.routeLimits) = 2
    THEN {Request(<<"a">>, <<"/", "x">>, GET), Request(<<"a">>, <<"/", "x", "y">>, GET)}
    ELSE {Request(<<"a">>, <<"/", "x">>, GET), Request(<<"a">>, <<"/", "z">>, GET)}

InitLimit == InitWith(LimitConfigs)

NextLimit == Tick \/ Janitor \/ \E req \in LimitRequests : Middleware(req)

SpecLimit == InitLimit /\ [][NextLimit]_vars

\* C40: whenever a request over its limit is answered RATE_LIMITED with
\* headers enabled, the X-RateLimit-Remaining header is 0, whether the
\* limit that denied it was a route limit, a method limit or maxRequests.
C40_RemainingIsZeroAtDenial ==
    \A i \in 1..Len(log) :
        (/\ log[i].op = "request"
         /\ log[i].branch = "limited"
         /\ log[i].headers.sent)
        => log[i].headers.remaining = 0

\* The configured route patterns that match a path.
Matching(path) ==
    {i \in 1..Len(config.routeLimits) : RegExpTest(config.routeLimits[i].pattern, path)}

\* The least number of a non-empty set of numbers.
Least(S) == CHOOSE x \in S : \A y \in S : x <= y

\* C8: the limit a request is held to is the minimum of the route limit and
\* the method limit that apply to it, and maxRequests only when neither
\* applies.  Stated for requests that at most one route pattern matches.
C8_LimitIsMinOfApplicableLimits ==
    \A i \in 1..Len(log) :
        (Counted(i) /\ Cardinality(Matching(log[i].req.path)) <= 1)
        => LET applicable ==
                 {config.routeLimits[p].limit : p \in Matching(log[i].req.path)}
                 \cup (IF log[i].req.method \in DOMAIN config.methodLimits
                       THEN {config.methodLimits[log[i].req.method]} ELSE {})
           IN  log[i].limit = IF applicable = {} THEN config.maxRequests
                              ELSE Least(applicable)

\* C9: when several route patterns match the path, the route limit used is
\* the minimum over all of them, whatever their order.
C9_RouteLimitIsMinOverMatches ==
    \A i \in 1..Len(log) :
        (Counted(i) /\ Matching(log[i].req.path) # {})
        => log[i].routeLimit =
              Least({config.routeLimits[p].limit : p \in Matching(log[i].req.path)})

----------------------------------------------------------------------------
(* Keys: route and method limits configured, so that the key is made of the
   identity, the path and the method; an identity and a path that hold the
   delimiter, and a request whose identity is undefined *)

KeyConfigs ==
    {[BaseConfig EXCEPT !.maxRequests = 2,
                        !.routeLimits = <<RouteLimit(<<"/">>, 2)>>,
                        !.methodLimits = (POST :> 2)]}

KeyRequests ==
    {Request(<<"a">>, <<"/", ":", "/">>, GET),
     Request(<<"a", ":", "/">>, <<"/">>, GET),
     Request(<<>>, <<"/">>, GET)}

InitKey == InitWith(KeyConfigs)

NextKey == Tick \/ Janitor \/ \E req \in KeyRequests : Middleware(req)

SpecKey == InitKey /\ [][NextKey]_vars

\* C22: with route and method limits configured, two requests that differ
\* in identity, path or method never get the same key.
C22_DifferentRequestsDifferentKeys ==
    \A i \in 1..Len(log) : \A j \in 1..Len(log) :
        (log[i].op = "request" /\ log[j].op = "request" /\ log[i].req # log[j].req)
        => log[i].key # log[j].key

\* The constant identity of a request whose identity cannot be resolved.
Unknown == <<"u", "n", "k", "n", "o", "w", "n">>

\* C23: the key of a request whose identity extractor yields no value is
\* built from the constant identity "unknown".
C23_UnresolvedIdentityIsUnknown ==
    \A i \in 1..Len(log) :
        (log[i].op = "request" /\ log[i].req.ip = <<>>)
        => /\ Len(log[i].key) >= Len(Unknown)
           /\ SubSeq(log[i].key, 1, Len(Unknown)) = Unknown

----------------------------------------------------------------------------
(* Construction: windowMs and maxRequests given as a negative number, as
   zero, or as a positive number *)

\* The constructor's treatment of windowMs and maxRequests, lines 5-6:
\* config.windowMs || 60 * 1000 and config.maxRequests || 100, where only 0
\* (of the numbers) is falsy.
Constructor(options) ==
    [BaseConfig EXCEPT
       !.windowMs    = IF options.windowMs # 0 THEN options.windowMs ELSE 60 * 1000,
       !.maxRequests = IF options.maxRequests # 0 THEN options.maxRequests ELSE 100]

CtorOptions == {[windowMs |-> w, maxRequests |-> m] : w \in {-1, 0, 2}, m \in {-1, 0, 1}}

CtorRequests == {Request(<<"a">>, <<"/">>, GET)}

InitCtor == InitWith({Constructor(o) : o \in CtorOptions})

NextCtor == Tick \/ Janitor \/ \E req \in CtorRequests : Middleware(req)

SpecCtor == InitCtor /\ [][NextCtor]_vars

\* C24: no limiter constructed with a windowMs or maxRequests of zero or
\* less comes into operation: a limiter that has handled a request has a
\* positive windowMs and maxRequests, and neither is a default put in the
\* place of a zero (no positive value given here is a default).
C24_InvalidValuesNeverOperate ==
    Len(log) > 0
    => /\ config.windowMs > 0
       /\ config.maxRequests > 0
       /\ config.windowMs # 60 * 1000
       /\ config.maxRequests # 100

----------------------------------------------------------------------------
(* Recovery after a denial: both window types, a limit of 1, windows of 2
   and 3 ticks, headers on *)

RecoverConfigs ==
    {[BaseConfig EXCEPT !.windowType = wt, !.windowMs = w] :
        wt \in {"sliding", "fixed"}, w \in {2, 3}}

InitRecover == InitWith(RecoverConfigs)

NextRecover == Tick \/ Janitor \/ \E req \in PlainRequests : Middleware(req)

SpecRecover == InitRecover /\ [][NextRecover]_vars

\* Entry j is the first request of entry i's key after entry i.
NextOfKey(i, j) ==
    /\ i < j
    /\ log[j].op = "request"
    /\ log[j].key = log[i].key
    /\ \A k \in (i + 1)..(j - 1) : log[k].key # log[i].key

\* C25: a key that was denied RATE_LIMITED with the reported reset time R,
\* is neither banned nor blacklisted, and sends nothing before R, is
\* ALLOWed on its first request at a time >= R, in sliding and in fixed
\* mode.
C25_AllowedAfterReportedReset ==
    \A i \in 1..Len(log) : \A j \in 1..Len(log) :
        (/\ log[i].op = "request"
         /\ log[i].branch = "limited"
         /\ log[i].headers.sent
         /\ NextOfKey(i, j)
         /\ log[j].branch \in {"counted", "limited"}
         /\ log[j].at >= log[i].headers.resetTime)
        => log[j].outcome = "ALLOW"

\* The same recovery in fixed mode alone.
FixedAllowedAfterReportedReset ==
    config.windowType = "fixed" => C25_AllowedAfterReportedReset

\* C39: a denial is not permanent.  A key that was RATE_LIMITED and then
\* sends nothing for at least windowMs is ALLOWed on its next request, when
\* that request is not stopped by a ban or the blacklist and its effective
\* limit is at least 1; in sliding and in fixed mode, whether or not
\* cleanup passes ran in between.
C39_AllowedAfterQuietWindow ==
    \A i \in 1..Len(log) : \A j \in 1..Len(log) :
        (/\ log[i].op = "request"
         /\ log[i].branch = "limited"
         /\ NextOfKey(i, j)
         /\ log[j].branch \in {"counted", "limited"}
         /\ log[j].limit >= 1
         /\ log[j].at - log[i].at >= config.windowMs)
        => log[j].outcome = "ALLOW"

\* In sliding mode a denied key asked again exactly windowMs later and was
\* ALLOWed.
C39_Witness ==
    /\ config.windowType = "sliding"
    /\ \E i \in 1..Len(log) : \E j \in 1..Len(log) :
          /\ log[i].branch = "limited"
          /\ NextOfKey(i, j)
          /\ log[j].at - log[i].at = config.windowMs
          /\ log[j].outcome = "ALLOW"

\* The step is a pass of the cleanup timer: the only step that changes the
\* request records without handling a request.
Swept == log' = log /\ now' = now /\ requests' # requests

\* C27: the expiry pass of the cleanup timer deletes a request record only
\* when the key's most recent request is older than the window: a record
\* that holds a timestamp t with now - t < windowMs survives the pass, in
\* sliding and in fixed mode.  The store stays below maxStoreSize here, so
\* every deletion is one of the expiry pass.
C27_ExpiryKeepsRecordsWithLiveTimestamps ==
    [][Swept
       => \A k \in ReqKeys(requests) \ ReqKeys(requests') :
            \A n \in 1..Len(ReqGet(requests, k).requests) :
                ~(now - ReqGet(requests, k).requests[n] < config.windowMs)]_vars

\* The same in fixed mode alone.
FixedExpiryKeepsRecordsWithLiveTimestamps ==
    [][config.windowType = "fixed"
       => (Swept
           => \A k \in ReqKeys(requests) \ ReqKeys(requests') :
                \A n \in 1..Len(ReqGet(requests, k).requests) :
                    ~(now - ReqGet(requests, k).requests[n] < config.windowMs))]_vars

----------------------------------------------------------------------------
(* Responses that are not to count: skipSuccessfulRequests on, both window
   types, a window of 2 ticks and a limit of 2; one client, whose responses
   finish in any order with a status of 200 or 500 *)

FinishConfigs ==
    {[BaseConfig EXCEPT !.windowType = wt, !.maxRequests = 2,
                        !.skipSuccessfulRequests = TRUE] :
        wt \in {"sliding", "fixed"}}

FinishRequests == {Request(<<"a">>, <<"/">>, GET)}

InitFinish == InitWith(FinishConfigs)

NextFinish ==
    \/ Tick
    \/ Janitor
    \/ \E req \in FinishRequests : Middleware(req)
    \/ \E n \in 1..MaxReqs, statusCode \in StatusCodes : Finish(n, statusCode)

SpecFinish == InitFinish /\ [][NextFinish]_vars

\* The step is the 'finish' event of response n, and its status is one the
\* configuration does not count.
Uncounted(n) ==
    /\ responses[n].statusCode = 0
    /\ responses'[n].statusCode # 0
    /\ \/ responses'[n].statusCode < 400 /\ config.skipSuccessfulRequests
       \/ responses'[n].statusCode >= 400 /\ config.skipFailedRequests

\* The sequence without its first element equal to x.
RemoveOne(seq, x) ==
    LET i == CHOOSE m \in 1..Len(seq) :
                 seq[m] = x /\ \A l \in 1..(m - 1) : seq[l] # x
    IN  SubSeq(seq, 1, i - 1) \o SubSeq(seq, i + 1, Len(seq))

\* C28: the decrement made when request R's response turns out not to
\* count is an exact rollback of R: it takes R's own increment out of the
\* record, so that count and timestamps are what they would be had R never
\* been counted, whatever requests and responses came in between.  A
\* record that still holds R's timestamp loses that timestamp and one from
\* count; a record that no longer holds it (the window has moved on) stays
\* as it is.
C28_DecrementRemovesOwnIncrement ==
    [][\A n \in DOMAIN responses :
          (Uncounted(n) /\ ReqHas(requests, responses[n].key))
          => LET old == ReqGet(requests, responses[n].key)
                 new == ReqGet(requests', responses[n].key)
             IN  IF \E m \in 1..Len(old.requests) : old.requests[m] = responses[n].at
                 THEN /\ new.requests = RemoveOne(old.requests, responses[n].at)
                      /\ new.count = old.count - 1
                 ELSE /\ new.requests = old.requests
                      /\ new.count = old.count]_vars

\* C29: the count of every request record is at least 0 in every reachable
\* state, the states after a post-response decrement included, in sliding
\* and in fixed mode.
C29_CountNeverNegative ==
    \A i \in 1..Len(requests) : requests[i].data.count >= 0

\* C30: in sliding mode the count of every request record is the length of
\* its timestamp sequence after every mutation, the post-response decrement
\* included.
C30_SlidingCountIsLength ==
    config.windowType = "sliding"
    => \A i \in 1..Len(requests) :
          requests[i].data.count = Len(requests[i].data.requests)

----------------------------------------------------------------------------
(* The sliding scenario in milliseconds: one client, a window of 1000 ms and
   a limit of 2, the clock read every 100 ms *)

ScenarioConfigs == {[BaseConfig EXCEPT !.windowMs = 1000, !.maxRequests = 2]}

ScenarioRequests == {Request(<<"a">>, <<"/">>, GET)}

\* The clock advances by 100 ms between handlers.
Tick100 ==
    /\ now < 300 * MaxTime
    /\ now' = now + 100
    /\ UNCHANGED <<config, requests, violations, bans, log, responses, wsVars>>

InitScenario == InitWith(ScenarioConfigs)

NextScenario == Tick100 \/ Janitor \/ \E req \in ScenarioRequests : Middleware(req)

SpecScenario == InitScenario /\ [][NextScenario]_vars

\* C33: in sliding mode the reset time reported at a denial is the oldest
\* timestamp still counted in the key's window plus windowMs, both as the
\* time in milliseconds and as the X-RateLimit-Reset header in seconds,
\* also after older timestamps have left the window.
C33_ResetIsOldestCountedPlusWindow ==
    [][(/\ Logged
        /\ Last.op = "request"
        /\ Last.branch = "limited"
        /\ Last.headers.sent
        /\ config.windowType = "sliding")
       => LET oldest == ReqGet(requests', Last.key).requests[1]
          IN  /\ Last.headers.resetTime = oldest + config.windowMs
              /\ Last.headers.reset = CeilSeconds(oldest + config.windowMs)]_vars

\* The times of the scenario's requests.
ScenarioTimes == <<0, 100, 200, 1100>>

\* The first n entries of the log are the scenario's first n requests.
ScenarioPlayed(n) ==
    /\ Len(log) >= n
    /\ \A i \in 1..n : log[i].op = "request" /\ log[i].at = ScenarioTimes[i]

\* C11 as stated: with windowMs = 1000 and maxRequests = 2 in sliding mode,
\* requests at 0, 100 and 200 end as ALLOW, ALLOW and RATE_LIMITED (count 3),
\* and the request at 1100 ends as RATE_LIMITED with count 3 because the
\* timestamps 100 and 200 are both still counted.
C11_ScenarioFourthIsRateLimited ==
    ScenarioPlayed(4)
    => /\ log[1].outcome = "ALLOW"
       /\ log[2].outcome = "ALLOW"
       /\ log[3].outcome = "RATE_LIMITED" /\ log[3].count = 3
       /\ log[4].outcome = "RATE_LIMITED" /\ log[4].count = 3

\* C11, amended: requests at 0, 100 and 200 end as ALLOW (count 1), ALLOW
\* (count 2) and RATE_LIMITED (count 3); the request at 1100 ends as ALLOW
\* with a count of at most 2, because the timestamp 100 is then exactly
\* windowMs old and is dropped with the timestamp 0.
C11_ScenarioFourthIsAllowed ==
    /\ ScenarioPlayed(1) => log[1].outcome = "ALLOW" /\ log[1].count = 1
    /\ ScenarioPlayed(2) => log[2].outcome = "ALLOW" /\ log[2].count = 2
    /\ ScenarioPlayed(3) => log[3].outcome = "RATE_LIMITED" /\ log[3].count = 3
    /\ ScenarioPlayed(4) => log[4].outcome = "ALLOW" /\ log[4].count <= 2

\* The four requests of the scenario were handled, and the fourth found the
\* timestamp 200 still counted.
C11_Witness == ScenarioPlayed(4) /\ log[4].count = 2

----------------------------------------------------------------------------
(* The store at capacity: maxStoreSize is 5, five clients have been served
   at time 0, and two more clients arrive *)

StoreConfigs ==
    {[BaseConfig EXCEPT !.windowMs = 3, !.maxStoreSize = 5,
                        !.autoBan = [enabled |-> TRUE, maxViolations |-> 1,
                                     banDurationMs |-> 2]]}

StoreRequests == {Request(<<ip>>, <<"/">>, GET) : ip \in {"a", "b"}}

\* The requests served before the behaviours of this specification start.
EarlierRequests ==
    <<Request(<<"c">>, <<"/">>, GET), Request(<<"d">>, <<"/">>, GET),
      Request(<<"e">>, <<"/">>, GET), Request(<<"f">>, <<"/">>, GET),
      Request(<<"g">>, <<"/">>, GET)>>

RECURSIVE Served(_, _, _)
\* The store after the middleware handled the requests reqs, in order, at
\* time t.
Served(st, reqs, t) ==
    IF Len(reqs) = 0 THEN st
    ELSE CHOOSE after \in {Served(g.store, Tail(reqs), t) : g \in {Gate(st, reqs[1], t)}} :
            TRUE

\* The state after construction and the earlier requests, all at time 0;
\* the log starts after them.
InitStore ==
    /\ now = 0
    /\ config \in StoreConfigs
    /\ LET st == Served(EmptyStore, EarlierRequests, 0)
       IN  /\ requests = st.requests
           /\ violations = st.violations
           /\ bans = st.bans
    /\ log = <<>>
    /\ responses = <<>>
    /\ WsConstructed({WsBaseConfig})

NextStore == Tick \/ Janitor \/ \E req \in StoreRequests : Middleware(req)

SpecStore == InitStore /\ [][NextStore]_vars

\* C12: a cleanup pass removes no BanRecord with expiresAt >= now and
\* changes none of them, whether or not it also evicts request records for
\* capacity; after the pass no BanRecord with expiresAt < now remains.
C12_JanitorRemovesExactlyExpiredBans ==
    [][Janitor
       => /\ \A k \in DOMAIN bans :
                bans[k].expiresAt >= now => (k \in DOMAIN bans' /\ bans'[k] = bans[k])
          /\ \A k \in DOMAIN bans' : ~(bans'[k].expiresAt < now)]_vars

\* A cleanup pass ran over a ban that has not expired: the banned key's
\* request record, which the banning request left in the store, is gone,
\* and the ban is still in place.
C12_Witness ==
    \E k \in DOMAIN bans : bans[k].expiresAt >= now /\ ~ReqHas(requests, k)

\* C13: a cleanup pass removes, by expiry or by capacity eviction, no
\* request record of a key that has a violation record with a nonzero count
\* (taken after the pass has pruned the violations).
C13_JanitorKeepsRecordsOfViolators ==
    [][Janitor
       => \A k \in ReqKeys(requests) :
             (k \in DOMAIN violations' /\ violations'[k].count # 0)
             => ReqHas(requests', k)]_vars

\* C14: after a cleanup pass the request store holds at most maxStoreSize
\* records.
C14_JanitorLeavesAtMostMaxStoreSize ==
    [][Janitor => Len(requests') <= config.maxStoreSize]_vars

----------------------------------------------------------------------------
(* The store at capacity with its oldest key banned: as above, but the
   first of the five clients asked twice at time 0 and was banned *)

\* The requests served before the behaviours of this specification start.
EvictEarlierRequests == <<Request(<<"c">>, <<"/">>, GET)>> \o EarlierRequests

InitEvict ==
    /\ now = 0
    /\ config \in StoreConfigs
    /\ LET st == Served(EmptyStore, EvictEarlierRequests, 0)
       IN  /\ requests = st.requests
           /\ violations = st.violations
           /\ bans = st.bans
    /\ log = <<>>
    /\ responses = <<>>
    /\ WsConstructed({WsBaseConfig})

NextEvict == Tick \/ Janitor \/ \E req \in StoreRequests : Middleware(req)

SpecEvict == InitEvict /\ [][NextEvict]_vars

\* The keys whose request records a cleanup pass removed for capacity:
\* removed although not expired.
Evicted34 ==
    {k \in ReqKeys(requests) \ ReqKeys(requests') :
        ~RequestExpired(ReqGet(requests, k), now)}

\* Key k is banned at the time of the pass.
Banned34(k) == k \in DOMAIN bans /\ ~BanExpired(bans[k], now)

\* C34: capacity eviction removes request records in ascending order of
\* their first request and skips the keys that are banned: no evicted key
\* is banned, and no evicted key has a later first request than a surviving
\* key that is not banned.
C34_EvictionOldestFirstSkippingBanned ==
    [][Janitor
       => /\ \A k \in Evicted34 : ~Banned34(k)
          /\ \A k \in Evicted34 : \A r \in ReqKeys(requests') :
                ~Banned34(r)
                => ReqGet(requests, k).firstRequest
                     <= ReqGet(requests, r).firstRequest]_vars

----------------------------------------------------------------------------
(* Resets: one client with an address and one whose request carries none
   (req.ip is undefined, and [undefined].join(':') is the empty string) *)

ResetConfigs == {BanConfig(1, FALSE, {})}

ResetRequests == {Request(ip, <<"/">>, GET) : ip \in {<<"a">>, <<>>}}

InitReset == InitWith(ResetConfigs)

NextReset ==
    \/ Tick
    \/ Janitor
    \/ \E req \in ResetRequests : Middleware(req)
    \/ \E key \in {GenerateKey(req) : req \in ResetRequests} : Reset(key)
    \/ ResetAll

SpecReset == InitReset /\ [][NextReset]_vars

\* The records store st holds for key.
RecordsOf(st, key) ==
    [requests   |-> SelectSeq(st.requests, LAMBDA e : e.key = key),
     violations |-> IF key \in DOMAIN st.violations THEN <<st.violations[key]>> ELSE <<>>,
     bans       |-> IF key \in DOMAIN st.bans THEN <<st.bans[key]>> ELSE <<>>]

\* C15: reset(key) removes the key's request, violation and ban records
\* together and leaves the records of every other key as they were; a
\* request of that key is then decided, and recorded, as the first request
\* of a key never seen; reset() without a key empties the three stores.
C15_ResetClearsOneKeyOnly ==
    [][/\ (Logged /\ Last.op = "reset")
          => /\ RecordsOf(Store', Last.key) = RecordsOf(EmptyStore, Last.key)
             /\ \A req \in ResetRequests :
                   GenerateKey(req) # Last.key
                   => RecordsOf(Store', GenerateKey(req)) = RecordsOf(Store, GenerateKey(req))
             /\ \A req \in ResetRequests :
                   GenerateKey(req) = Last.key
                   => LET next  == Gate(Store', req, now)
                          first == Gate(EmptyStore, req, now)
                      IN  /\ next.outcome = first.outcome
                          /\ RecordsOf(next.store, Last.key)
                               = RecordsOf(first.store, Last.key)
       /\ (Logged /\ Last.op = "resetAll") => Store' = EmptyStore]_vars

----------------------------------------------------------------------------
(* WebSocketSupport: the handlers.  w is [sockets, connections,
   activeConnections, errors, rateLimiters, timers]; a connection id is the
   number of its socket, as generateConnectionId gives every connection a
   fresh one. *)

\* A pending setTimeout or setInterval callback: its kind ("limiter", "auth"
\* or "ping"), the IP or the socket it was created for, and when it is due.
Timer(kind, ip, s, due) == [kind |-> kind, ip |-> ip, socket |-> s, due |-> due]

\* clearTimeout / clearInterval of the timers of one kind of socket s.
ClearTimers(tm, kind, s) == {x \in tm : ~(x.kind = kind /\ x.socket = s)}

\* ws.close(code, reason) and ws.terminate(): an open socket starts closing
\* and emits 'close' later; on a socket that is closing or closed neither
\* does anything more.
Closing(socket) ==
    IF socket.readyState = "OPEN" THEN [socket EXCEPT !.readyState = "CLOSING"]
    ELSE socket

\* checkRateLimit(ip): the state afterwards (a limiter and its cleanup timer
\* are created when the IP has none) and the answer.
CheckRateLimit(w, ip, t) ==
    LET w1 == IF ip \in DOMAIN w.rateLimiters THEN w
              ELSE [w EXCEPT
                      !.rateLimiters = MapSet(@, ip, [count |-> 0,
                          resetTime |-> t + wsConfig.rateLimiting.windowMs]),
                      !.timers = @ \cup {Timer("limiter", ip, 0,
                                               t + wsConfig.rateLimiting.windowMs)}]
    IN  [ws      |-> w1,
         limited |-> w1.rateLimiters[ip].count
                       >= wsConfig.rateLimiting.maxConnectionsPerIP]

\* setupConnection(ws, req, connectionId, logger) followed by the stats
\* update of lines 120-121.
SetupConnection(w, s, t) ==
    [w EXCEPT
       !.connections = MapSet(@, s, [ip |-> w.sockets[s].ip, connectTime |-> t,
                                     lastPing |-> t, messageCount |-> 0]),
       !.timers = @ \cup {Timer("ping", "", s, t + wsConfig.heartbeatInterval)},
       !.sockets[s].listening = TRUE,
       !.sockets[s].phase = "done",
       !.activeConnections = @ + 1]

\* The catch block of the connection handler, line 142: ws.close(4000, ...).
RejectConnection(w, s) ==
    [w EXCEPT !.sockets[s] = [Closing(@) EXCEPT !.phase = "done"]]

\* The 'connection' handler up to its first await, lines 83-108, or to its
\* end when authentication is off.
OnConnection(w, s, ip, t) ==
    LET w0  == [w EXCEPT !.sockets[s] = [readyState |-> "OPEN", ip |-> ip,
                                         phase |-> "none", listening |-> FALSE]]
        chk == CheckRateLimit(w0, ip, t)
        w1  == IF wsConfig.rateLimiting.enabled THEN chk.ws ELSE w0
    IN  IF w0.activeConnections >= wsConfig.maxConnections
        THEN RejectConnection(w0, s)
        ELSE IF wsConfig.rateLimiting.enabled /\ chk.limited
        THEN RejectConnection(w1, s)
        ELSE IF wsConfig.auth.enabled
        THEN [w1 EXCEPT !.sockets[s].phase = "auth",
                        !.timers = @ \cup {Timer("auth", "", s, t + wsConfig.auth.timeout)}]
        ELSE SetupConnection(w1, s, t)

\* The rest of the 'connection' handler once the authentication handler has
\* settled, lines 109-142: ok says whether it resolved.
AfterAuth(w, s, ok, t) ==
    LET w1 == [w EXCEPT !.timers = ClearTimers(@, "auth", s)]
    IN  IF ok THEN SetupConnection(w1, s, t) ELSE RejectConnection(w1, s)

\* The setTimeout callback of lines 103-105: ws.close(4000, ...).
OnAuthTimeout(w, s) ==
    [w EXCEPT !.sockets[s] = Closing(@),
              !.timers = ClearTimers(@, "auth", s)]

\* handleClose(connectionId, code, reason, logger)
HandleClose(w, s) ==
    IF s \notin DOMAIN w.connections THEN w
    ELSE [w EXCEPT !.activeConnections = @ - 1,
                   !.connections = MapDelete(@, s)]

\* The socket emits 'close': the listener of lines 190-193 runs if
\* setupConnection has registered it.
OnClose(w, s) ==
    LET w1 == [w EXCEPT !.sockets[s].readyState = "CLOSED"]
    IN  IF w.sockets[s].listening
        THEN HandleClose([w1 EXCEPT !.timers = ClearTimers(@, "ping", s)], s)
        ELSE w1

\* The 'message' listener, lines 169-175, with handleMessage and handleError:
\* the state afterwards and whether the message reached config.onMessage.
HandleMessage(w, s) ==
    IF s \notin DOMAIN w.connections THEN [ws |-> w, passed |-> FALSE]
    ELSE LET ip == w.connections[s].ip
             w1 == [w EXCEPT !.connections[s].messageCount = @ + 1]
             counted == wsConfig.rateLimiting.enabled /\ ip \in DOMAIN w.rateLimiters
             w2 == IF counted THEN [w1 EXCEPT !.rateLimiters[ip].count = @ + 1] ELSE w1
         IN  IF counted /\ w2.rateLimiters[ip].count > wsConfig.rateLimiting.maxMessages
             THEN [ws |-> [w2 EXCEPT !.errors = @ + 1], passed |-> FALSE]
             ELSE [ws |-> w2, passed |-> TRUE]

\* The 'pong' listener, lines 178-182.
OnPong(w, s, t) ==
    IF s \in DOMAIN w.connections THEN [w EXCEPT !.connections[s].lastPing = t] ELSE w

\* The setInterval callback of lines 160-166, which then waits for another
\* heartbeatInterval.  Without a record of the connection the callback
\* throws before it reaches the socket.
OnHeartbeat(w, s, t) ==
    LET w1 == [w EXCEPT !.timers = ClearTimers(@, "ping", s)
                          \cup {Timer("ping", "", s, t + wsConfig.heartbeatInterval)}]
    IN  IF s \notin DOMAIN w.connections THEN w1
        ELSE IF t - w.connections[s].lastPing > wsConfig.pingTimeout
        THEN [w1 EXCEPT !.sockets[s] = Closing(@)]
        ELSE w1

\* The setTimeout callback of lines 296-298: this.rateLimiters.delete(ip).
OnLimiterCleanup(w, ip, due) ==
    [w EXCEPT !.rateLimiters = MapDelete(@, ip),
              !.timers = @ \ {Timer("limiter", ip, 0, due)}]

\* close(), lines 313-317: the connections and the limiters are cleared;
\* no timer is cancelled and the stats are left as they are.  this.wss.close()
\* stops the server; whether it also terminates the sockets that are open
\* depends on the version of the ws library (terminates).
CloseServer(w, terminates) ==
    [w EXCEPT !.connections = EmptyMap,
              !.rateLimiters = EmptyMap,
              !.sockets = IF terminates THEN [s \in Sockets |-> Closing(@[s])] ELSE @]

----------------------------------------------------------------------------
(* WebSocketSupport: actions *)

Ws == [sockets |-> sockets, connections |-> connections,
       activeConnections |-> activeConnections, errors |-> errors,
       rateLimiters |-> rateLimiters, timers |-> timers]

SetWs(w) ==
    /\ sockets' = w.sockets
    /\ connections' = w.connections
    /\ activeConnections' = w.activeConnections
    /\ errors' = w.errors
    /\ rateLimiters' = w.rateLimiters
    /\ timers' = w.timers

rlVars == <<config, requests, violations, bans, log, responses>>

\* The clock advances between handlers, once every callback that is due has
\* run.
WsTick ==
    /\ now < MaxTime
    /\ \A x \in timers : x.due > now
    /\ now' = now + 1
    /\ UNCHANGED <<rlVars, wsVars>>

\* The server emits 'connection' for a new socket of a client at ip.
Connection(s, ip) ==
    /\ wss = "running"
    /\ sockets[s].readyState = "NONE"
    /\ \A r \in Sockets : r < s => sockets[r].readyState # "NONE"
    /\ SetWs(OnConnection(Ws, s, ip, now))
    /\ UNCHANGED <<now, rlVars, wsConfig, wss, delivered>>

\* config.auth.handler(req) settles for a connection that awaits it.
AuthSettled(s, ok) ==
    /\ sockets[s].phase = "auth"
    /\ SetWs(AfterAuth(Ws, s, ok, now))
    /\ UNCHANGED <<now, rlVars, wsConfig, wss, delivered>>

\* The authentication timeout of socket s runs out.
AuthTimeout(s) ==
    /\ \E x \in timers : x.kind = "auth" /\ x.socket = s /\ x.due <= now
    /\ SetWs(OnAuthTimeout(Ws, s))
    /\ UNCHANGED <<now, rlVars, wsConfig, wss, delivered>>

\* The client closes an open socket, or its connection drops.
ClientClose(s) ==
    /\ sockets[s].readyState = "OPEN"
    /\ SetWs(OnClose(Ws, s))
    /\ UNCHANGED <<now, rlVars, wsConfig, wss, delivered>>

\* A socket the server closed or terminated has finished closing.
CloseCompleted(s) ==
    /\ sockets[s].readyState = "CLOSING"
    /\ SetWs(OnClose(Ws, s))
    /\ UNCHANGED <<now, rlVars, wsConfig, wss, delivered>>

\* A message arrives on an open socket that has its listeners.
Message(s) ==
    /\ Len(delivered) + errors < MaxMsgs
    /\ sockets[s].readyState = "OPEN"
    /\ sockets[s].listening
    /\ LET m == HandleMessage(Ws, s)
       IN  /\ SetWs(m.ws)
           /\ delivered' = IF m.passed
                           THEN Append(delivered, [socket |-> s, ip |-> sockets[s].ip,
                                                   at |-> now])
                           ELSE delivered
    /\ UNCHANGED <<now, rlVars, wsConfig, wss>>

\* The client answers a ping (or sends a pong unasked) and the pong is news.
Pong(s) ==
    /\ sockets[s].readyState = "OPEN"
    /\ sockets[s].listening
    /\ s \in DOMAIN connections
    /\ connections[s].lastPing < now
    /\ SetWs(OnPong(Ws, s, now))
    /\ UNCHANGED <<now, rlVars, wsConfig, wss, delivered>>

\* The heartbeat timer of connection s fires.
Heartbeat(s) ==
    /\ \E x \in timers : x.kind = "ping" /\ x.socket = s /\ x.due <= now
    /\ SetWs(OnHeartbeat(Ws, s, now))
    /\ UNCHANGED <<now, rlVars, wsConfig, wss, delivered>>

\* A limiter's cleanup timer fires.
LimiterCleanup ==
    \E x \in timers :
        /\ x.kind = "limiter"
        /\ x.due <= now
        /\ SetWs(OnLimiterCleanup(Ws, x.ip, x.due))
        /\ UNCHANGED <<now, rlVars, wsConfig, wss, delivered>>

\* close() is called while the server runs.
Close(terminates) ==
    /\ wss = "running"
    /\ SetWs(CloseServer(Ws, terminates))
    /\ wss' = "closed"
    /\ UNCHANGED <<now, rlVars, wsConfig, delivered>>

\* middleware(logger)(expressServer) is called again after close(): a new
\* server is created, lines 64-78, on the same maps, stats and timers.
Attach ==
    /\ wss = "closed"
    /\ wss' = "running"
    /\ UNCHANGED <<now, rlVars, wsConfig, sockets, connections, activeConnections,
                   errors, rateLimiters, timers, delivered>>

\* The state after both constructors, for a WebSocket configuration of cs.
InitWsWith(cs) ==
    /\ now = 0
    /\ config = BaseConfig
    /\ requests = <<>>
    /\ violations = EmptyMap
    /\ bans = EmptyMap
    /\ log = <<>>
    /\ responses = <<>>
    /\ WsConstructed(cs)

----------------------------------------------------------------------------
(* WebSocket admission: a cap of one connection in all with authentication
   on, or a cap of one connection per IP; the clients send nothing *)

WsAuthConfig ==
    [WsBaseConfig EXCEPT !.maxConnections = 1,
                         !.rateLimiting.enabled = FALSE,
                         !.auth.enabled = TRUE]

WsConfigs == {WsBaseConfig, WsAuthConfig}

WsIps == {"a", "b"}

InitWs == InitWsWith(WsConfigs)

NextWs ==
    \/ WsTick
    \/ \E s \in Sockets : \E ip \in WsIps : Connection(s, ip)
    \/ \E s \in Sockets : \E ok \in BOOLEAN : AuthSettled(s, ok)
    \/ \E s \in Sockets : AuthTimeout(s)
    \/ \E s \in Sockets : ClientClose(s)
    \/ \E s \in Sockets : CloseCompleted(s)
    \/ \E s \in Sockets : Heartbeat(s)
    \/ LimiterCleanup

SpecWs == InitWs /\ [][NextWs]_vars

\* C17: in every reachable state activeConnections is at most
\* maxConnections, however connection attempts interleave, attempts whose
\* authentication is still pending included.
C17_ActiveAtMostMaxConnections == activeConnections <= wsConfig.maxConnections

\* The live connections of ip: the records of sockets that have not closed.
LiveOf(ip) ==
    {s \in DOMAIN connections :
        connections[s].ip = ip /\ sockets[s].readyState # "CLOSED"}

\* C18: with rate limiting enabled no IP has more than
\* rateLimiting.maxConnectionsPerIP live connections at a time.
C18_LiveConnectionsPerIpAtMostCap ==
    wsConfig.rateLimiting.enabled
    => \A ip \in WsIps :
          Cardinality(LiveOf(ip)) <= wsConfig.rateLimiting.maxConnectionsPerIP

\* C21: a socket that has closed holds no connection record and no slot in
\* activeConnections: every record belongs to a socket that has not closed,
\* and activeConnections counts no more than the sockets that have not
\* closed; a socket closed while its authentication was pending is never
\* registered.
C21_ClosedSocketHoldsNoSlot ==
    /\ \A s \in Sockets : sockets[s].readyState = "CLOSED" => s \notin DOMAIN connections
    /\ activeConnections
         <= Cardinality({s \in Sockets : sockets[s].readyState \in {"OPEN", "CLOSING"}})

----------------------------------------------------------------------------
(* WebSocket messages: one message per IP and window, no authentication *)

WsMessageConfigs == {[WsBaseConfig EXCEPT !.rateLimiting.maxConnectionsPerIP = 2]}

InitWsMessages == InitWsWith(WsMessageConfigs)

NextWsMessages ==
    \/ WsTick
    \/ \E s \in Sockets : \E ip \in WsIps : Connection(s, ip)
    \/ \E s \in Sockets : ClientClose(s)
    \/ \E s \in Sockets : CloseCompleted(s)
    \/ \E s \in Sockets : Message(s)
    \/ \E s \in Sockets : Pong(s)
    \/ \E s \in Sockets : Heartbeat(s)
    \/ LimiterCleanup

SpecWsMessages == InitWsMessages /\ [][NextWsMessages]_vars

\* C19: with rate limiting enabled, the messages of one IP passed on to the
\* message handler within any stretch of time shorter than
\* rateLimiting.windowMs number at most rateLimiting.maxMessages.
C19_MessagesPerWindowAtMostMax ==
    wsConfig.rateLimiting.enabled
    => \A i \in 1..Len(delivered) :
          Cardinality({j \in 1..i :
                         /\ delivered[j].ip = delivered[i].ip
                         /\ delivered[i].at - delivered[j].at
                              < wsConfig.rateLimiting.windowMs})
            <= wsConfig.rateLimiting.maxMessages

----------------------------------------------------------------------------
(* WebSocket heartbeats: authentication on, clients that answer pings or do
   not; every callback that is due runs, a socket the server closed or
   terminated emits 'close', and the clock advances *)

WsLiveConfigs ==
    {[WsBaseConfig EXCEPT !.rateLimiting.enabled = FALSE, !.auth.enabled = TRUE]}

InitWsLive == InitWsWith(WsLiveConfigs)

NextWsLive ==
    \/ WsTick
    \/ \E s \in Sockets : Connection(s, "a")
    \/ \E s \in Sockets : \E ok \in BOOLEAN : AuthSettled(s, ok)
    \/ \E s \in Sockets : AuthTimeout(s)
    \/ \E s \in Sockets : ClientClose(s)
    \/ \E s \in Sockets : CloseCompleted(s)
    \/ \E s \in Sockets : Pong(s)
    \/ \E s \in Sockets : Heartbeat(s)

SpecWsLive ==
    /\ InitWsLive
    /\ [][NextWsLive]_vars
    /\ WF_vars(WsTick)
    /\ \A s \in Sockets :
          /\ WF_vars(Heartbeat(s))
          /\ WF_vars(AuthTimeout(s))
          /\ WF_vars(CloseCompleted(s))

\* Connection s is registered and its last liveness acknowledgment dates
\* from t, early enough for the heartbeat that finds it overdue to fall
\* within the clock's range.
AwaitingPongSince(s, t) ==
    /\ s \in DOMAIN connections
    /\ connections[s].lastPing = t
    /\ t + wsConfig.pingTimeout + wsConfig.heartbeatInterval <= MaxTime

\* The record of connection s is removed and its heartbeat timer cancelled.
Evicted(s) ==
    /\ s \notin DOMAIN connections
    /\ \A x \in timers : ~(x.kind = "ping" /\ x.socket = s)

\* C20: a registered connection that does not acknowledge a liveness probe
\* again is eventually terminated, its record removed and its heartbeat
\* timer cancelled.
C20_SilentConnectionIsEvicted ==
    \A s \in Sockets : \A t \in 0..MaxTime :
        AwaitingPongSince(s, t)
        ~> (Evicted(s) \/ (s \in DOMAIN connections /\ connections[s].lastPing > t))

\* Connection s has acknowledged every liveness probe so far: its last
\* acknowledgment is no older than the previous run of its heartbeat timer,
\* heartbeatInterval ago, when the latest probe was sent (or, at the first
\* run, when the connection was set up and no probe had been sent yet).
Responsive(s) ==
    /\ s \in DOMAIN connections
    /\ sockets[s].readyState = "OPEN"
    /\ connections[s].lastPing >= now - wsConfig.heartbeatInterval

\* C36: with heartbeatInterval above pingTimeout, as in the default
\* configuration, a connection that has acknowledged every liveness probe
\* is not terminated by a run of its heartbeat timer.
C36_ResponsiveConnectionIsKept ==
    [][\A s \in Sockets :
          (Heartbeat(s) /\ Responsive(s)) => sockets'[s].readyState = "OPEN"]_vars

----------------------------------------------------------------------------
(* WebSocket shutdown: no authentication, a cap of one connection per IP;
   close() is called at any time and the server may be attached again *)

InitWsClose == InitWsWith({WsBaseConfig})

NextWsClose ==
    \/ WsTick
    \/ \E s \in Sockets : \E ip \in WsIps : Connection(s, ip)
    \/ \E s \in Sockets : ClientClose(s)
    \/ \E s \in Sockets : CloseCompleted(s)
    \/ \E s \in Sockets : Heartbeat(s)
    \/ LimiterCleanup
    \/ \E terminates \in BOOLEAN : Close(terminates)
    \/ Attach

SpecWsClose == InitWsClose /\ [][NextWsClose]_vars

\* C35: no timer callback touches freed state.  A heartbeat timer runs
\* only for a connection whose record is in place, so never after the
\* record was removed by the 'close' event or by close(); and a limiter's
\* cleanup timer deletes only the limiter it was scheduled for, the one
\* whose window ends when the timer is due.
C35_TimersTouchOnlyTheirOwnState ==
    [][/\ \A s \in Sockets : Heartbeat(s) => s \in DOMAIN connections
       /\ LimiterCleanup
            => \A ip \in DOMAIN rateLimiters \ DOMAIN rateLimiters' :
                  \E x \in timers \ timers' :
                      /\ x.kind = "limiter"
                      /\ x.ip = ip
                      /\ rateLimiters[ip].resetTime = x.due]_vars

\* The same for the limiters' cleanup timers alone.
LimiterCleanupDeletesOwnLimiter ==
    [][LimiterCleanup
       => \A ip \in DOMAIN rateLimiters \ DOMAIN rateLimiters' :
             \E x \in timers \ timers' :
                 /\ x.kind = "limiter"
                 /\ x.ip = ip
                 /\ rateLimiters[ip].resetTime = x.due]_vars

\* C37: activeConnections is the number of entries of the connections map
\* in every reachable state, whatever connections were admitted, rejected
\* or closed and whenever close() was called.
C37_ActiveIsNumberOfConnections ==
    activeConnections = Cardinality(DOMAIN connections)

====
